---- MODULE Spec2Model ----
(***************************************************************************)
(* A model of scripts/face_detector.py: main's loop over the segments,     *)
(* detect_faces_in_segment and get_face_boxes.                             *)
(*                                                                         *)
(* Seconds are fixed-point numbers, TicksPerSecond ticks to the second.    *)
(* Relative box coordinates are fixed-point numbers, BoxUnit units to the  *)
(* frame's width or height.  A string is a sequence of one-character       *)
(* strings.  The video decoder and the face detector are the environment:  *)
(* whether the capture opens, whether a frame is read, how many faces a    *)
(* frame shows and whether the detector raises are chosen at each call.    *)
(***************************************************************************)
EXTENDS Integers, Sequences, FiniteSets, TLC

\* ------------------------------------------------------------------ bounds
MaxSegments == 2
MaxFaces == 2
MaxDetections == 3
TicksPerSecond == 10
BoxUnit == 20

\* --------------------------------------------------------- program constants
SAMPLE_FRAMES_PER_SEGMENT == 5
DefaultFps == 30
DefaultSegmentSeconds == 30
MaxFacesArg == 2

VARIABLES
    video,          \* the file at video_path: "missing", "corrupt" or "ok"
    fps_reported,   \* what cap.get(CAP_PROP_FPS) answers
    segments,       \* json.loads(segments_json)
    pc,             \* where control is
    i,              \* main's loop index, 1-based
    results,        \* main's results list
    exc,            \* the exception in flight, or "none"
    start,          \* main's start, after lines 266-272
    end,            \* main's end, after lines 267-275
    cap,            \* the running call's cv2.VideoCapture
    sample_frames,  \* detect_faces_in_segment's sample_frames
    start_frame,    \* detect_faces_in_segment's start_frame
    k,              \* position of the for loop in sample_frames, 1-based
    face_counts,    \* detect_faces_in_segment's face_counts
    frame_log,      \* what cap.read() and the detector answered for each sample frame
    face_count,     \* what detect_faces_in_segment returns; main's face_count
    boxes           \* what get_face_boxes returns; main's boxes

vars == <<video, fps_reported, segments, pc, i, results, exc, start, end, cap,
          sample_frames, start_frame, k, face_counts, frame_log, face_count,
          boxes>>

\* ------------------------------------------------------------ JSON values
Absent == [kind |-> "absent", num |-> 0, str |-> <<>>]
Num(n) == [kind |-> "num", num |-> n, str |-> <<>>]
Str(s) == [kind |-> "str", num |-> 0, str |-> s]
Secs(n) == Num(n * TicksPerSecond)

\* ------------------------------------------------------- string operations
Digits == <<"0", "1", "2", "3", "4", "5", "6", "7", "8", "9">>

IsDigit(c) == \E d \in 1..10 : Digits[d] = c

DigitVal(c) == (CHOOSE d \in 1..10 : Digits[d] = c) - 1

\* ':' in s
HasColon(s) == \E j \in 1..Len(s) : s[j] = ":"

\* s.split(':')
RECURSIVE SplitFrom(_, _, _)
SplitFrom(s, j, cur) ==
    IF j > Len(s) THEN <<cur>>
    ELSE IF s[j] = ":" THEN <<cur>> \o SplitFrom(s, j + 1, <<>>)
    ELSE SplitFrom(s, j + 1, Append(cur, s[j]))

Split(s) == SplitFrom(s, 1, <<>>)

\* what int() and float() accept here: a non-empty run of digits
IsNumeric(s) == Len(s) > 0 /\ \A j \in 1..Len(s) : IsDigit(s[j])

RECURSIVE ParseInt(_)
ParseInt(s) ==
    IF Len(s) = 0 THEN 0
    ELSE 10 * ParseInt(SubSeq(s, 1, Len(s) - 1)) + DigitVal(s[Len(s)])

\* int(x) of a quotient a / b with b > 0: truncation toward zero
TruncDiv(a, b) == IF a >= 0 THEN a \div b ELSE -((-a) \div b)

Max(a, b) == IF a >= b THEN a ELSE b
Min(a, b) == IF a <= b THEN a ELSE b

\* ---------------------------------------------- main, lines 266-275
\* segment.get('start', 0)
GetStart(seg) == IF seg.start.kind = "absent" THEN Num(0) ELSE seg.start

\* segment.get('end', start + 30): the default is evaluated before the lookup,
\* so a string start raises TypeError whether or not 'end' is present.
GetEndRaises(seg) == GetStart(seg).kind = "str"

GetEnd(seg) ==
    IF seg.end.kind = "absent"
    THEN Num(GetStart(seg).num + DefaultSegmentSeconds * TicksPerSecond)
    ELSE seg.end

\* The exception lines 270-272 (273-275) raise for a value, or "none".
ConvertRaises(v) ==
    IF v.kind = "str" /\ HasColon(v.str)
    THEN LET parts == Split(v.str) IN
         IF Len(parts) >= 1 /\ ~IsNumeric(parts[1]) THEN "ValueError"
         ELSE IF Len(parts) >= 2 /\ ~IsNumeric(parts[2]) THEN "ValueError"
         ELSE IF Len(parts) < 3 THEN "IndexError"
         ELSE IF ~IsNumeric(parts[3]) THEN "ValueError"
         ELSE "none"
    ELSE "none"

\* int(parts[0]) * 3600 + int(parts[1]) * 60 + float(parts[2]), when nothing raises
Convert(v) ==
    IF v.kind = "str" /\ HasColon(v.str)
    THEN LET parts == Split(v.str) IN
         Num((ParseInt(parts[1]) * 3600 + ParseInt(parts[2]) * 60
              + ParseInt(parts[3])) * TicksPerSecond)
    ELSE v

\* ------------------------------- detect_faces_in_segment, lines 76-91
Fps(reported) == IF reported <= 0 THEN DefaultFps ELSE reported

TotalFrames(s, e, fps) == TruncDiv((e - s) * fps, TicksPerSecond)

\* interval = total_frames / 5; int(i * interval) is the floor of i * total / 5:
\* the product is inexact only when 5 does not divide i * total_frames, and then
\* it is not within rounding distance of an integer.
SampleFrames(total) ==
    IF total <= SAMPLE_FRAMES_PER_SEGMENT
    THEN [j \in 1..Max(total, 0) |-> j - 1]
    ELSE [j \in 1..SAMPLE_FRAMES_PER_SEGMENT |->
              ((j - 1) * total) \div SAMPLE_FRAMES_PER_SEGMENT]

StartFrame(s, fps) == TruncDiv(s * fps, TicksPerSecond)

\* ------------------------------ detect_faces_in_segment, lines 124-140
Freq(fc, c) == Cardinality({j \in DOMAIN fc : fc[j] = c})

MaxFreq(fc) == CHOOSE m \in 1..Len(fc) :
                   /\ \E j \in DOMAIN fc : Freq(fc, fc[j]) = m
                   /\ \A j \in DOMAIN fc : Freq(fc, fc[j]) <= m

\* max(count_frequency.items(), key=lambda x: x[1])[0]: the dict keeps its keys
\* in the order of their first insertion, and max returns the first maximal item.
MostCommon(fc) ==
    fc[CHOOSE j \in DOMAIN fc :
           /\ Freq(fc, fc[j]) = MaxFreq(fc)
           /\ \A l \in 1..(j - 1) : Freq(fc, fc[l]) < MaxFreq(fc)]

\* Aggregate without line 137's fallback: a mode of 0 is returned as it is
AggregateNoFallback(fc) == IF fc = <<>> THEN 1 ELSE MostCommon(fc)

Aggregate(fc) ==
    IF fc = <<>> THEN 1
    ELSE IF MostCommon(fc) = 0 THEN 1
    ELSE MostCommon(fc)

\* CountsAfterFrame without line 106's `continue`: an unread frame counts as 0 faces
CountsAfterFrameNoSkip(fc, ret, n) == Append(fc, IF ret THEN n ELSE 0)

\* the frames the for loop leaves out of face_counts: `if not ret: continue`
CountsAfterFrame(fc, ret, n) == IF ret THEN Append(fc, n) ELSE fc

\* ------------------------------------- get_face_boxes, lines 210-225
ClampBox(b) ==
    [x |-> Max(0, b.xmin),
     y |-> Max(0, b.ymin),
     width |-> Min(BoxUnit - b.xmin, b.width),
     height |-> Min(BoxUnit - b.ymin, b.height)]

\* TopN without the slice: every detection is kept
TopNAll(dets, max_faces) == dets

\* results.detections[:max_faces]
TopN(dets, max_faces) == SubSeq(dets, 1, Min(Len(dets), max_faces))

FaceBoxes(dets, max_faces) ==
    [j \in 1..Len(TopN(dets, max_faces)) |-> ClampBox(TopN(dets, max_faces)[j])]

\* ---------------------------------------------- main, lines 280-298
Mode(fc) == IF fc >= 2 THEN "SPLIT" ELSE "CENTER"

\* FinallyCap with cap.release() as the try block's last statement instead of
\* a finally clause: an exception skips it
FinallyCapOnSuccess(c, e) == IF e = "none" THEN "released" ELSE c

\* try: ... finally: cap.release()
FinallyCap(c, e) == "released"

SegmentResult(idx, seg, s, e, fc, bx) ==
    [segment_index |-> idx - 1,
     start |-> IF seg.start.kind = "absent" THEN s ELSE seg.start,
     end |-> IF seg.end.kind = "absent" THEN e ELSE seg.end,
     face_count |-> fc,
     mode |-> Mode(fc),
     boxes |-> bx]

\* ------------------------------------------------------------- inputs
T_010203 == <<"0", "1", ":", "0", "2", ":", "0", "3">>
T_0205 == <<"0", "2", ":", "0", "5">>
T_000010 == <<"0", "0", ":", "0", "0", ":", "1", "0">>
T_000020 == <<"0", "0", ":", "0", "0", ":", "2", "0">>
T_42 == <<"4", "2">>

SegmentChoices ==
    { [start |-> Secs(0), end |-> Secs(10)],
      [start |-> Secs(0), end |-> Str(T_010203)],
      [start |-> Secs(42), end |-> Absent],
      [start |-> Num(0), end |-> Num(1)],
      [start |-> Secs(10), end |-> Secs(5)],
      [start |-> Str(T_000010), end |-> Str(T_000020)],
      [start |-> Secs(0), end |-> Str(T_0205)],
      [start |-> Secs(0), end |-> Str(T_42)] }

SegmentLists == UNION { [1..n -> SegmentChoices] : n \in 0..MaxSegments }

\* the empty list, every list of one segment, and three lists of two: the
\* end-to-end scenario of the specification's section 8, two segments that
\* sample five frames each, and a segment shorter than a frame before one that
\* lacks its end
FixtureLists ==
    {<<>>} \cup { <<seg>> : seg \in SegmentChoices }
    \cup { << [start |-> Secs(0), end |-> Secs(10)],
              [start |-> Str(T_000010), end |-> Str(T_000020)] >>,
           << [start |-> Secs(0), end |-> Secs(10)],
              [start |-> Secs(0), end |-> Str(T_010203)] >>,
           << [start |-> Num(0), end |-> Num(1)],
              [start |-> Secs(42), end |-> Absent] >> }

FpsChoices == {0, 2}

DetectorBox(xmin, ymin, width, height) ==
    [xmin |-> xmin, ymin |-> ymin, width |-> width, height |-> height]

\* (0.95, 0.3, 0.2, 0.2) and (-0.1, 0.3, 1.2, 0.2) at BoxUnit = 20
BoxChoices == { DetectorBox(19, 6, 4, 4), DetectorBox(-2, 6, 24, 4) }

DetectionLists == UNION { [1..n -> BoxChoices] : n \in 0..MaxDetections }

\* --------------------------------------------------------------- Init
InitWith(lists) ==
    /\ video \in {"missing", "corrupt", "ok"}
    /\ fps_reported \in FpsChoices
    /\ segments \in lists
    /\ pc = "validate"
    /\ i = 1
    /\ results = <<>>
    /\ exc = "none"
    /\ start = Absent
    /\ end = Absent
    /\ cap = "none"
    /\ sample_frames = <<>>
    /\ start_frame = 0
    /\ k = 1
    /\ face_counts = <<>>
    /\ frame_log = <<>>
    /\ face_count = 0
    /\ boxes = <<>>

\* every list of at most MaxSegments segments
Init == InitWith(SegmentLists)

\* the fixture lists
InitFixtures == InitWith(FixtureLists)

env == <<video, fps_reported, segments>>
detect_locals == <<sample_frames, start_frame, k, face_counts, frame_log>>

\* lines 255-260: Path(video_path).exists()
MainValidate ==
    /\ pc = "validate"
    /\ pc' = IF video = "missing" THEN "exit1" ELSE "loop"
    /\ UNCHANGED <<env, i, results, exc, start, end, cap, detect_locals,
                   face_count, boxes>>

\* lines 265-278 up to the call, and line 301 when the loop is over
MainLoop ==
    /\ pc = "loop"
    /\ IF i > Len(segments)
       THEN /\ pc' = "done"
            /\ UNCHANGED <<exc, start, end>>
       ELSE LET seg == segments[i] IN
            IF GetEndRaises(seg)
            THEN /\ pc' = "crashed"
                 /\ exc' = "TypeError"
                 /\ start' = GetStart(seg)
                 /\ UNCHANGED end
            ELSE IF ConvertRaises(GetStart(seg)) # "none"
            THEN /\ pc' = "crashed"
                 /\ exc' = ConvertRaises(GetStart(seg))
                 /\ start' = GetStart(seg)
                 /\ end' = GetEnd(seg)
            ELSE IF ConvertRaises(GetEnd(seg)) # "none"
            THEN /\ pc' = "crashed"
                 /\ exc' = ConvertRaises(GetEnd(seg))
                 /\ start' = Convert(GetStart(seg))
                 /\ end' = GetEnd(seg)
            ELSE /\ pc' = "detect_open"
                 /\ start' = Convert(GetStart(seg))
                 /\ end' = Convert(GetEnd(seg))
                 /\ UNCHANGED exc
    /\ UNCHANGED <<env, i, results, cap, detect_locals, face_count, boxes>>

\* lines 69-73: cv2.VideoCapture(video_path); a file that decodes may still
\* fail to open (the decoder's own resources)
DetectOpen ==
    /\ pc = "detect_open"
    /\ \E opened \in IF video = "ok" THEN BOOLEAN ELSE {FALSE} :
          IF opened
          THEN /\ cap' = "open"
               /\ pc' = "detect_sample"
               /\ UNCHANGED face_count
          ELSE /\ cap' = "unopened"
               /\ face_count' = 1
               /\ pc' = "decide"
    /\ UNCHANGED <<env, i, results, exc, start, end, detect_locals, boxes>>

\* lines 76-100; end_time - start_time raises TypeError for a string
DetectSample ==
    /\ pc = "detect_sample"
    /\ IF start.kind # "num" \/ end.kind # "num"
       THEN /\ exc' = "TypeError"
            /\ pc' = "detect_finally"
            /\ UNCHANGED detect_locals
       ELSE /\ sample_frames' =
                   SampleFrames(TotalFrames(start.num, end.num, Fps(fps_reported)))
            /\ start_frame' = StartFrame(start.num, Fps(fps_reported))
            /\ face_counts' = <<>>
            /\ frame_log' = <<>>
            /\ k' = 1
            /\ pc' = "detect_loop"
            /\ UNCHANGED exc
    /\ UNCHANGED <<env, i, results, start, end, cap, face_count, boxes>>

\* lines 102-120, one iteration: the frame is not read, or the detector counts
\* n faces on it
DetectFrame ==
    /\ pc = "detect_loop"
    /\ k <= Len(sample_frames)
    /\ \E ret \in BOOLEAN, n \in 0..MaxFaces :
          /\ (~ret => n = 0)
          /\ face_counts' = CountsAfterFrame(face_counts, ret, n)
          /\ frame_log' = Append(frame_log, [ret |-> ret, n |-> n])
    /\ k' = k + 1
    /\ UNCHANGED <<env, pc, i, results, exc, start, end, cap, sample_frames,
                   start_frame, face_count, boxes>>

\* lines 110-114: cvtColor or face_detection.process raises on a read frame
DetectFrameRaises ==
    /\ pc = "detect_loop"
    /\ k <= Len(sample_frames)
    /\ exc' = "DetectorError"
    /\ pc' = "detect_finally"
    /\ UNCHANGED <<env, i, results, start, end, cap, detect_locals, face_count,
                   boxes>>

\* lines 122-140: the loop is over
DetectAggregate ==
    /\ pc = "detect_loop"
    /\ k > Len(sample_frames)
    /\ face_count' = Aggregate(face_counts)
    /\ pc' = "detect_finally"
    /\ UNCHANGED <<env, i, results, exc, start, end, cap, detect_locals, boxes>>

\* lines 142-143, then the return to main or the exception leaving main
DetectFinally ==
    /\ pc = "detect_finally"
    /\ cap' = FinallyCap(cap, exc)
    /\ pc' = IF exc = "none" THEN "decide" ELSE "crashed"
    /\ UNCHANGED <<env, i, results, exc, start, end, detect_locals, face_count,
                   boxes>>

\* lines 281-284: face_count >= 2, up to the call of get_face_boxes
MainDecideSplit ==
    /\ pc = "decide"
    /\ Mode(face_count) = "SPLIT"
    /\ pc' = "boxes_open"
    /\ cap' = "none"
    /\ sample_frames' = <<>>
    /\ start_frame' = 0
    /\ k' = 1
    /\ face_counts' = <<>>
    /\ frame_log' = <<>>
    /\ UNCHANGED <<env, i, results, exc, start, end, face_count, boxes>>

\* lines 285-298: face_count < 2, boxes = [] and the result appended
MainDecideCenter ==
    /\ pc = "decide"
    /\ Mode(face_count) = "CENTER"
    /\ results' = Append(results,
                         SegmentResult(i, segments[i], start, end, face_count, <<>>))
    /\ i' = i + 1
    /\ pc' = "loop"
    /\ cap' = "none"
    /\ sample_frames' = <<>>
    /\ start_frame' = 0
    /\ k' = 1
    /\ face_counts' = <<>>
    /\ frame_log' = <<>>
    /\ face_count' = 0
    /\ UNCHANGED <<env, exc, start, end, boxes>>

\* lines 168-172
BoxesOpen ==
    /\ pc = "boxes_open"
    /\ \E opened \in IF video = "ok" THEN BOOLEAN ELSE {FALSE} :
          IF opened
          THEN /\ cap' = "open"
               /\ pc' = "boxes_read"
          ELSE /\ cap' = "unopened"
               /\ pc' = "emit"
    /\ UNCHANGED <<env, i, results, exc, start, end, detect_locals, face_count,
                   boxes>>

\* lines 175-225: the midpoint frame is not read, or the detector answers dets
BoxesRead ==
    /\ pc = "boxes_read"
    /\ \E ret \in BOOLEAN, dets \in DetectionLists :
          /\ (~ret => dets = <<>>)
          /\ boxes' = IF ret THEN FaceBoxes(dets, MaxFacesArg) ELSE <<>>
    /\ pc' = "boxes_finally"
    /\ UNCHANGED <<env, i, results, exc, start, end, cap, detect_locals,
                   face_count>>

\* lines 200-204: cvtColor or face_detection.process raises
BoxesReadRaises ==
    /\ pc = "boxes_read"
    /\ exc' = "DetectorError"
    /\ pc' = "boxes_finally"
    /\ UNCHANGED <<env, i, results, start, end, cap, detect_locals, face_count,
                   boxes>>

\* lines 227-228, then the return to main or the exception leaving main
BoxesFinally ==
    /\ pc = "boxes_finally"
    /\ cap' = FinallyCap(cap, exc)
    /\ pc' = IF exc = "none" THEN "emit" ELSE "crashed"
    /\ UNCHANGED <<env, i, results, exc, start, end, detect_locals, face_count,
                   boxes>>

\* lines 289-298, after get_face_boxes returned
MainEmit ==
    /\ pc = "emit"
    /\ results' = Append(results,
                         SegmentResult(i, segments[i], start, end, face_count, boxes))
    /\ i' = i + 1
    /\ pc' = "loop"
    /\ cap' = "none"
    /\ boxes' = <<>>
    /\ face_count' = 0
    /\ UNCHANGED <<env, exc, start, end, detect_locals>>

Next ==
    \/ MainValidate
    \/ MainLoop
    \/ DetectOpen
    \/ DetectSample
    \/ DetectFrame
    \/ DetectFrameRaises
    \/ DetectAggregate
    \/ DetectFinally
    \/ MainDecideSplit
    \/ MainDecideCenter
    \/ BoxesOpen
    \/ BoxesRead
    \/ BoxesReadRaises
    \/ BoxesFinally
    \/ MainEmit

Spec == Init /\ [][Next]_vars

SpecFixtures == InitFixtures /\ [][Next]_vars

\* ====================================================================
\* Properties
\* ====================================================================

\* the counts of the sample frames that were read, in sampling order
ReadCounts == [j \in 1..Len(SelectSeq(frame_log, LAMBDA f : f.ret)) |->
                  SelectSeq(frame_log, LAMBDA f : f.ret)[j].n]

\* detect_faces_in_segment has computed its return value from the whole sample
Aggregated == pc = "detect_finally" /\ exc = "none"

InDetect == pc \in {"detect_sample", "detect_loop", "detect_finally"}
InBoxes == pc \in {"boxes_read", "boxes_finally"}

\* C1: an unexpected error of the detector while a segment is processed does
\* not abort the run: the run never ends on a detector error.
C1_DetectorErrorDoesNotAbort == ~(pc = "crashed" /\ exc = "DetectorError")

\* C2: when the video cannot be opened (a file that exists but does not decode
\* included), no SegmentResult is ever produced.
C2_UnopenableVideoEmitsNothing == video # "ok" => results = <<>>

\* the count values that share the maximum frequency
Tied(fc) == {fc[j] : j \in {l \in DOMAIN fc : Freq(fc, fc[l]) = MaxFreq(fc)}}

SetMax(S) == CHOOSE m \in S : \A x \in S : x <= m

\* C3: when two or more count values share the maximum frequency among the read
\* frames, detect_faces_in_segment returns the largest of them.
C3_TieResolvesToLargest ==
    (Aggregated /\ ReadCounts # <<>> /\ Cardinality(Tied(ReadCounts)) >= 2)
        => face_count = SetMax(Tied(ReadCounts))

\* a number, "HH:MM:SS" or "MM:SS"
WellFormedTimestamp(v) ==
    \/ v.kind = "num"
    \/ /\ v.kind = "str"
       /\ Len(Split(v.str)) \in {2, 3}
       /\ \A j \in 1..Len(Split(v.str)) : IsNumeric(Split(v.str)[j])

\* HH:MM:SS -> H*3600 + M*60 + S, MM:SS -> M*60 + S, number -> itself
NormalizedSeconds(v) ==
    IF v.kind = "num" THEN v.num
    ELSE LET parts == Split(v.str) IN
         IF Len(parts) = 3
         THEN (ParseInt(parts[1]) * 3600 + ParseInt(parts[2]) * 60
               + ParseInt(parts[3])) * TicksPerSecond
         ELSE (ParseInt(parts[1]) * 60 + ParseInt(parts[2])) * TicksPerSecond

\* C4: for a segment whose start and end are each a number, "HH:MM:SS" or
\* "MM:SS", the normalization does not abort the run, and the range analysed is
\* the one of the normalized seconds.
C4_WellFormedTimestampsNormalized ==
    (i <= Len(segments)
     /\ WellFormedTimestamp(segments[i].start)
     /\ WellFormedTimestamp(segments[i].end))
        => /\ ~(pc = "crashed" /\ exc # "DetectorError")
           /\ (InDetect \/ pc = "detect_open")
                 => /\ start = Num(NormalizedSeconds(segments[i].start))
                    /\ end = Num(NormalizedSeconds(segments[i].end))

\* C5: every box get_face_boxes returns lies inside the unit square.
C5_BoxesInsideUnitSquare ==
    pc = "boxes_finally" =>
        \A j \in 1..Len(boxes) :
            /\ 0 <= boxes[j].x /\ boxes[j].x <= BoxUnit
            /\ 0 <= boxes[j].y /\ boxes[j].y <= BoxUnit
            /\ boxes[j].width >= 0
            /\ boxes[j].height >= 0
            /\ boxes[j].x + boxes[j].width <= BoxUnit
            /\ boxes[j].y + boxes[j].height <= BoxUnit

\* C6: for a segment of positive duration the sample is non-empty, strictly
\* increasing, inside the segment's frame span, and is every frame of a span of
\* fewer than 5 frames; it is empty only when the duration is <= 0.
C6_SampleNonEmptyAndIncreasing ==
    pc = "detect_loop" =>
        LET duration == end.num - start.num
            fps == Fps(fps_reported)
            n == Len(sample_frames)
        IN /\ duration > 0 =>
                /\ n > 0
                /\ \A j \in 1..(n - 1) : sample_frames[j] < sample_frames[j + 1]
                /\ \A j \in 1..n :
                      /\ sample_frames[j] >= 0
                      /\ sample_frames[j] * TicksPerSecond < duration * fps
                /\ duration * fps < SAMPLE_FRAMES_PER_SEGMENT * TicksPerSecond
                      => \A f \in 0..(n - 1) : sample_frames[f + 1] = f
           /\ n = 0 => duration <= 0

\* C7: in every emitted SegmentResult the mode is CENTER exactly when
\* face_count < 2 and SPLIT exactly when face_count >= 2, and there are at most
\* min(face_count, 2) boxes.
C7_ModeAndBoxCount ==
    \A j \in 1..Len(results) :
        /\ results[j].mode \in {"CENTER", "SPLIT"}
        /\ results[j].mode = "CENTER" <=> results[j].face_count < 2
        /\ results[j].mode = "SPLIT" <=> results[j].face_count >= 2
        /\ Len(results[j].boxes) <= Min(results[j].face_count, 2)

\* a run that emitted a CENTER result and then a SPLIT result with two boxes
C7_Witness ==
    /\ Len(results) = 2
    /\ results[1].mode = "CENTER"
    /\ results[2].mode = "SPLIT"
    /\ Len(results[2].boxes) = 2

C9_ConstantCountSurvivesReadFailures ==
    (Aggregated /\ ReadCounts # <<>>)
        => \A c \in 1..MaxFaces :
              (\A j \in 1..Len(ReadCounts) : ReadCounts[j] = c) => face_count = c

\* the first, third and last of five sample frames were not read, the other two
\* showed two faces, and 2 is returned
C9_Witness ==
    /\ Aggregated
    /\ Len(frame_log) = SAMPLE_FRAMES_PER_SEGMENT
    /\ ~frame_log[1].ret /\ ~frame_log[3].ret /\ ~frame_log[5].ret
    /\ ReadCounts = <<2, 2>>
    /\ face_count = 2

\* no sample frame yields a face, or 0 is the most frequent count of the read frames
ZeroDetections ==
    \/ \A j \in 1..Len(ReadCounts) : ReadCounts[j] = 0
    \/ \A c \in 1..MaxFaces : Freq(ReadCounts, c) < Freq(ReadCounts, 0)

\* C10: when no sample frame of a segment yields a face (an empty sample, no
\* frame read, every read frame without a face) or the mode of the counts is 0,
\* the result emitted for the segment has face_count 1, mode CENTER and no box.
C10_ZeroDetectionFallback ==
    [][(pc = "decide" /\ ZeroDetections)
          => /\ Len(results') = Len(results) + 1
             /\ results'[Len(results')].segment_index = i - 1
             /\ results'[Len(results')].face_count = 1
             /\ results'[Len(results')].mode = "CENTER"
             /\ results'[Len(results')].boxes = <<>>]_vars

\* five sample frames, some not read, the others without a face except one,
\* and detect_faces_in_segment returned
C10_Witness ==
    /\ pc = "decide"
    /\ Len(frame_log) = SAMPLE_FRAMES_PER_SEGMENT
    /\ ~frame_log[2].ret
    /\ ReadCounts = <<0, 2, 0, 0>>
    /\ face_count = 1

====
